---- MODULE Spec2Model ----
(***************************************************************************)
(* Model of the Parace game server: the connection gateway (app.py), the   *)
(* session coordinator (game_state.py) and the player entity (player.py).  *)
(*                                                                         *)
(* The server is one asyncio event loop.  A coroutine runs without         *)
(* interruption from one `await` to the next, so every action below is the *)
(* code a handler (or the game loop) executes between two awaits.          *)
(*                                                                         *)
(* A Player object is created once per connection (app.py:52), so Player   *)
(* objects are named by the connection that created them.                  *)
(***************************************************************************)
EXTENDS Integers, Sequences, FiniteSets, TLC

\* ------------------------------------------------------------------ bounds
\* Number of websocket connections the server accepts in a run.
NConn == 3
\* Wall-clock seconds after which the model stops advancing time.
MaxTime == 61
\* Number of environment events in a run: handshakes and inbound messages
\* read by the handlers, clients going away, and game-loop ticks.
MaxEvents == 4
\* Calls on one Player's checkpoint methods.
MaxCalls == 4

Conns == 1..NConn

\* ------------------------------------------------------- program constants
\* game_state.config["playerTimeout"]
playerTimeout == 30

\* GameState.start_time (the clock of the model starts at construction).
start_time == 0

\* Python's None (player_id before the handshake, exclude's default).
None == "<None>"

\* A {x, y, z} record.  Lengths are in quarters of a unit, angles in
\* milliradians.
Vec(x, y, z) == [x |-> x, y |-> y, z |-> z]

\* dict.get(key, default) on a parsed JSON object.
Get(m, k, default) == IF k \in DOMAIN m THEN m[k] ELSE default

\* Values random.randint(1, 1000000) may give the world seed.
WorldSeeds == {1, 1000000}

\* Chunk coordinates a caller may ask for.
ChunkCoords == {-1, 1, 11}

\* A point {x, z} of a road, in world units.
Pt(x, z) == [x |-> x, z |-> z]

\* Coordinates of road points around chunk (1, 1).
RoadCoords == {250, 750, 1250, 1750}

\* Road networks _generate_road_network may give: here one road of one
\* segment between any two of the points.
RoadNetworks ==
    {<< <<Pt(x1, z1), Pt(x2, z2)>> >> : x1, z1, x2, z2 \in RoadCoords}

\* WorldGenerator.chunk_size
chunk_size == 500

\* Values of `angle = random.random() * 2 * math.pi` in add_player.
SpawnAngles == {3142}

\* math.cos(angle) * spawn_radius and math.sin(angle) * spawn_radius.
SpawnX(angle) == CASE angle = 0 -> 80 [] angle = 3142 -> -80

SpawnZ(angle) == CASE angle = 0 -> 0 [] angle = 3142 -> 0

\* Handshake messages a client may send (None: the key is missing): no key
\* at all, an empty playerId (a falsy id), and an id that coincides with a
\* sequential placeholder.
Handshakes ==
    {[playerId |-> None, playerName |-> None, vehicleType |-> None],
     [playerId |-> "", playerName |-> "Ann", vehicleType |-> "truck"],
     [playerId |-> "player_2", playerName |-> None, vehicleType |-> None]}
\* Transform payloads a client may put in a `position` message: a point far
\* from every spawn point, and a record that lacks coordinates.
ClientPositions == {Vec(400, 0, 0), [x |-> 4]}
\* The `position` messages a client may send: each key may be missing.
ClientMoves ==
    {[type |-> "position", position |-> p] : p \in ClientPositions}
    \cup {[type |-> "position", rotation |-> Vec(0, 1571, 0),
                                velocity |-> Vec(40, 0, 0)],
          [type |-> "position"]}
\* Values a client may put in the `timestamp` of a `ping` message.
ClientTimestamps == {7}
\* Seconds the wall clock may have advanced between two reads by update().
ClockSteps == {30, 31}

VARIABLES
    pc,                 \* where each connection's handler is suspended
    alive,              \* the client end of each connection is still there
    player_id,          \* websocket_endpoint's local player_id
    message,            \* websocket_endpoint's local message (last one parsed)
    sending,            \* the message of the handler's own send in flight
    name,               \* Player.name
    vehicle_type,       \* Player.vehicle_type
    position,           \* Player.position
    rotation,           \* Player.rotation
    velocity,           \* Player.velocity
    last_update,        \* Player.last_update
    world_seed,         \* game_state.world_seed
    connected_players,  \* app.connected_players (dict, insertion ordered)
    players,            \* game_state.players (dict, insertion ordered)
    current_time,       \* game_state.current_time
    tick_count,         \* game_state.tick_count
    events,             \* game_state.events
    roads,              \* world_generator.roads (a list of polylines)
    chunks,             \* world_generator.chunks (the chunk cache)
    asked,              \* the arguments of the last get_chunk call
    returned,           \* what the last get_chunk call returned
    generated,          \* history: _generate_chunk calls per coordinate pair
    hit,                \* history: the last get_chunk call found its key cached
    game_loop,          \* the game_loop task: "running" or "crashed"
    bcast,              \* each handler's broadcast_message frame
    nevents,            \* history: environment events so far
    left,               \* history: playerLeft broadcasts started per handler
    last_msg,           \* history: time each handler last parsed a message
    nread,              \* history: messages each handler has parsed
    checkpoints_passed, \* a Player's checkpoints_passed
    current_checkpoint, \* its current_checkpoint
    best_lap_time,      \* its best_lap_time: <<>> for None, else <<seconds>>
    current_lap_start,  \* its current_lap_start: <<>> for None, else <<time>>
    passed,             \* history: ids given to pass_checkpoint since the last reset
    called,             \* history: the last call on that Player
    ncalls              \* history: calls on that Player so far

\* The attributes of a Player that no message changes.
identity == <<player_id, name, vehicle_type>>

\* The kinematic state of the Players.
kinematics == <<position, rotation, velocity>>

vars == <<pc, alive, player_id, message, sending, name, vehicle_type,
          position, rotation, velocity, last_update, world_seed,
          connected_players, players, current_time, tick_count, events,
          game_loop, bcast, nevents, left, last_msg, nread,
          roads, chunks, asked, returned, generated, hit,
          checkpoints_passed, current_checkpoint, best_lap_time,
          current_lap_start, passed, called, ncalls>>

\* The state of the gateway and the coordinator.
server == <<pc, alive, player_id, message, sending, name, vehicle_type,
            position, rotation, velocity, last_update, world_seed,
            connected_players, players, current_time, tick_count, events,
            game_loop, bcast, nevents, left, last_msg, nread>>

\* The lap state of one Player, with its history.
lap == <<checkpoints_passed, current_checkpoint, best_lap_time,
         current_lap_start, passed, called, ncalls>>

\* The state of the world generator.
generator == <<roads, chunks, asked, returned, generated, hit>>

\* ------------------------------------------------------------- Python dict
\* A dict is its entries array: a deleted entry leaves a dummy slot behind,
\* an insert of a new key appends, an assignment to a present key keeps the
\* slot.  (No resize happens below 6 inserts.)
Dummy == [key |-> None, val |-> 0, live |-> FALSE]

DictLive(d) == {i \in DOMAIN d : d[i].live}

DictLen(d) == Cardinality(DictLive(d))

DictHas(d, k) == \E i \in DictLive(d) : d[i].key = k

DictIdx(d, k) == CHOOSE i \in DictLive(d) : d[i].key = k

DictGet(d, k) == d[DictIdx(d, k)].val

DictSet(d, k, v) ==
    IF DictHas(d, k)
    THEN [d EXCEPT ![DictIdx(d, k)].val = v]
    ELSE Append(d, [key |-> k, val |-> v, live |-> TRUE])

DictDel(d, k) == [d EXCEPT ![DictIdx(d, k)] = Dummy]

DictKeys(d) == {d[i].key : i \in DictLive(d)}

DictVals(d) == {d[i].val : i \in DictLive(d)}

\* First live slot after position p, 0 when there is none.
NextLive(d, p) ==
    IF \E i \in DictLive(d) : i > p
    THEN CHOOSE i \in DictLive(d) : i > p /\ \A j \in DictLive(d) : j > p => i <= j
    ELSE 0

\* ---------------------------------------------------------------- helpers
\* Python truthiness of a player id (`if player_id:`).
Truthy(id) == id # None /\ id # ""

\* f"player_{len(connected_players) + 1}"
PlaceholderId(d) == "player_" \o ToString(DictLen(d) + 1)

\* f"Player {len(connected_players) + 1}"
PlaceholderName(d) == "Player " \o ToString(DictLen(d) + 1)

\* The handler of q is inside its main message loop (handshake completed).
InLoop(q) ==
    \/ pc[q] \in {"recv", "pong"}
    \/ pc[q] = "bc" /\ bcast[q].type \in {"playerPosition", "chat"}

\* websocket.send_json on q's socket reaches the client.
Reachable(q) == alive[q] /\ pc[q] # "closed"

\* GameState.remove_player.  No iteration over game_state.players is ever
\* suspended, so the slot a deleted player leaves behind is never seen: the
\* entries are kept without it.
remove_player(pl, id) ==
    IF DictHas(pl, id)
    THEN SelectSeq(pl, LAMBDA e : e.key # id)
    ELSE pl

\* --------------------------------------------------------------- broadcast
NoFrame ==
    [type |-> None, playerId |-> None, playerName |-> None, body |-> <<>>,
     exclude |-> None, used |-> 0, pos |-> 0, len |-> 0, cur |-> 0,
     log |-> <<>>, st |-> "idle", exc |-> None]

\* The iteration of frame f is over (normally, or by the exception exc): its
\* iterator is garbage.
EndFrame(f, st, exc) ==
    [f EXCEPT !.st = st, !.exc = exc, !.used = 0, !.pos = 0, !.len = 0,
              !.cur = 0]

\* The connections a frame's message has been delivered to.
Got(f) == {f.log[i].to : i \in {j \in DOMAIN f.log : f.log[j].ok}}

\* Variant of Addressed: the `exclude` argument is ignored.
AddressedIgnoringExclude(key, exclude) == key # None

\* `player_id != exclude` in broadcast_message.
Addressed(key, exclude) == key # exclude

\* The `for ... in connected_players.items()` statement resumed on frame f:
\* the dict iterator raises when the dict changed size since the loop
\* began, or when it finds an entry after having yielded as many as the
\* dict held; entries equal to `exclude` are skipped; the loop suspends at
\* the next send_json.
RECURSIVE IterNext(_, _)
IterNext(d, f) ==
    IF f.used # DictLen(d)
    THEN EndFrame(f, "raised", "RuntimeError")
    ELSE LET i == NextLive(d, f.pos) IN
         IF i = 0 THEN EndFrame(f, "done", None)
         ELSE IF f.len = 0 THEN EndFrame(f, "raised", "RuntimeError")
         ELSE IF Addressed(d[i].key, f.exclude)
              THEN [f EXCEPT !.pos = i, !.len = @ - 1, !.cur = d[i].val,
                             !.st = "send"]
              ELSE IterNext(d, [f EXCEPT !.pos = i, !.len = @ - 1])

\* broadcast_message(message, exclude) called by handler c on table d, run up
\* to its first send.
StartBroadcast(d, c, type, body, exclude) ==
    IterNext(d,
        [type |-> type, playerId |-> player_id[c],
         playerName |-> IF type \in {"playerJoined", "chat"} THEN name[c] ELSE None,
         body |-> body, exclude |-> exclude,
         used |-> DictLen(d), pos |-> 0, len |-> DictLen(d), cur |-> 0,
         log |-> <<>>, st |-> "send", exc |-> None])

\* Variant of AfterSend: no try/except around the send, its exception ends
\* the loop and reaches the caller.
AfterSendUncaught(d, f, ok) ==
    IF ok
    THEN IterNext(d, [f EXCEPT !.log = Append(@, [to |-> f.cur, ok |-> ok])])
    ELSE EndFrame(f, "raised", "send")

\* broadcast_message resumed when the send in flight has returned (ok) or
\* raised: the exception is caught and logged, the loop goes on.
AfterSend(d, f, ok) ==
    IterNext(d, [f EXCEPT !.log = Append(@, [to |-> f.cur, ok |-> ok])])

\* The frame a handler keeps: none once its broadcast has ended.
Kept(f) == IF f.st = "send" THEN f ELSE NoFrame

\* Where the handler is once its frame is in state st.
PcAfter(f) ==
    CASE f.st = "send" -> "bc"
      [] f.st = "done" /\ f.type = "playerLeft" -> "closed"
      [] f.st = "done" -> "recv"
      [] OTHER -> "closed"

\* -------------------------------------------------------------------- Init
\* Player.__init__: the race fields of a new Player.
InitPlayer ==
    /\ checkpoints_passed = <<>>
    /\ current_checkpoint = 0
    /\ best_lap_time = <<>>
    /\ current_lap_start = <<>>
    /\ passed = <<>>
    /\ called = [op |-> "init"]
    /\ ncalls = 0

InitServer ==
    /\ InitPlayer
    /\ pc = [c \in Conns |-> "new"]
    /\ alive = [c \in Conns |-> TRUE]
    /\ player_id = [c \in Conns |-> None]
    /\ message = [c \in Conns |-> <<>>]
    /\ sending = [c \in Conns |-> <<>>]
    /\ name = [c \in Conns |-> None]
    /\ vehicle_type = [c \in Conns |-> None]
    /\ position = [c \in Conns |-> Vec(0, 0, 0)]
    /\ rotation = [c \in Conns |-> Vec(0, 0, 0)]
    /\ velocity = [c \in Conns |-> Vec(0, 0, 0)]
    /\ last_update = [c \in Conns |-> 0]
    /\ world_seed \in WorldSeeds
    /\ connected_players = <<>>
    /\ players = <<>>
    /\ current_time = 0
    /\ tick_count = 0
    /\ events = <<>>
    /\ game_loop = "running"
    /\ bcast = [c \in Conns |-> NoFrame]
    /\ nevents = 0
    /\ left = [c \in Conns |-> 0]
    /\ last_msg = [c \in Conns |-> 0]
    /\ nread = [c \in Conns |-> 0]
    /\ chunks = <<>>
    /\ asked = <<>>
    /\ returned = <<>>
    /\ generated = [xz \in ChunkCoords \X ChunkCoords |-> 0]
    /\ hit = FALSE

\* The state after construction, with a road network of one segment that
\* crosses chunk (1, 1).
Init ==
    /\ InitServer
    /\ roads = << <<Pt(250, 750), Pt(1250, 750)>> >>

\* ------------------------------------------------------- handler endings
\* The handler of c returns: the server closes the socket.
Close(c) ==
    /\ pc' = [pc EXCEPT ![c] = "closed"]
    /\ alive' = [alive EXCEPT ![c] = FALSE]

\* except WebSocketDisconnect (app.py:121-132), up to the first send of the
\* playerLeft broadcast.
Teardown(c) ==
    IF Truthy(player_id[c])
    THEN LET d == IF DictHas(connected_players, player_id[c])
                  THEN DictDel(connected_players, player_id[c])
                  ELSE connected_players
             f == StartBroadcast(d, c, "playerLeft", <<>>, None)
         IN /\ connected_players' = d
            /\ players' = remove_player(players, player_id[c])
            /\ bcast' = [bcast EXCEPT ![c] = Kept(f)]
            /\ left' = [left EXCEPT ![c] = @ + 1]
            /\ pc' = [pc EXCEPT ![c] = PcAfter(f)]
            /\ alive' = [alive EXCEPT ![c] = FALSE]
    ELSE /\ Close(c)
         /\ UNCHANGED <<connected_players, players, bcast, left>>

\* except Exception (app.py:134-138).
ErrorExit(c) ==
    /\ IF Truthy(player_id[c]) /\ DictHas(connected_players, player_id[c])
       THEN /\ connected_players' = DictDel(connected_players, player_id[c])
            /\ players' = remove_player(players, player_id[c])
       ELSE UNCHANGED <<connected_players, players>>
    /\ Close(c)

\* A send_json on the handler's own dead socket raises; the exception is a
\* WebSocketDisconnect or another Exception depending on the transport.
OwnSendRaises(c) ==
    \/ Teardown(c)
    \/ ErrorExit(c) /\ UNCHANGED <<bcast, left>>

\* ------------------------------------------------------------- handshake
\* Variant of Player: the object of an earlier connection with the same id
\* is used again.
PlayerReused(c, id) ==
    IF \E q \in Conns \ {c} : pc[q] # "new" /\ player_id[q] = id
    THEN CHOOSE q \in Conns \ {c} : pc[q] # "new" /\ player_id[q] = id
    ELSE c

\* Player(...) at app.py:52: the object the handler of c constructs for the
\* id it read is a new one, named by the connection.
Player(c, id) == c

\* Variant of public_player: the record also carries the liveness timestamp.
public_player_with_liveness(o) ==
    [id |-> player_id[o], name |-> name[o], position |-> position[o],
     rotation |-> rotation[o], vehicleType |-> vehicle_type[o],
     lastUpdate |-> last_update[o]]

\* The record get_public_state builds for Player object o.
public_player(o) ==
    [id |-> player_id[o], name |-> name[o], position |-> position[o],
     rotation |-> rotation[o], vehicleType |-> vehicle_type[o]]

\* GameState.get_public_state
get_public_state ==
    [players |-> [k \in DictKeys(players) |-> public_player(DictGet(players, k))],
     time |-> current_time - start_time,
     playerCount |-> DictLen(players)]

\* Variant of init_message: the snapshot is the one from before add_player.
init_message_before_add(c) ==
    [type |-> "init", playerId |-> player_id[c],
     gameState |->
        [get_public_state EXCEPT
            !.players = [k \in DOMAIN @ \ {player_id[c]} |-> @[k]],
            !.playerCount = @ - 1],
     worldSeed |-> world_seed]

\* The `init` message of app.py:62-67 in the handler of c.
init_message(c) ==
    [type |-> "init", playerId |-> player_id[c],
     gameState |-> get_public_state, worldSeed |-> world_seed]

\* app.py:38-62: accept, read the handshake, register the player, up to the
\* send of `init` (its argument is built before the send suspends).
\* Connections are numbered in the order they handshake.
HandshakeOk(c) ==
    /\ UNCHANGED <<generator, lap>>
    /\ pc[c] = "new" /\ alive[c]
    /\ nevents < MaxEvents
    /\ nevents' = nevents + 1
    /\ \A q \in Conns : q < c => pc[q] # "new"
    /\ UNCHANGED <<alive, message, world_seed, current_time, tick_count, events, game_loop,
                   bcast, left>>
    /\ \E init_json \in Handshakes, angle \in SpawnAngles :
        LET id == IF init_json.playerId = None
                  THEN PlaceholderId(connected_players) ELSE init_json.playerId
            pn == IF init_json.playerName = None
                  THEN PlaceholderName(connected_players) ELSE init_json.playerName
            vt == IF init_json.vehicleType = None
                  THEN "default" ELSE init_json.vehicleType
        IN /\ player_id' = [player_id EXCEPT ![c] = id]
           /\ name' = [name EXCEPT ![c] = pn]
           /\ vehicle_type' = [vehicle_type EXCEPT ![c] = vt]
           /\ velocity' = [velocity EXCEPT ![c] = Vec(0, 0, 0)]
           /\ last_update' = [last_update EXCEPT ![c] = current_time]
           /\ connected_players' = DictSet(connected_players, id, Player(c, id))
           /\ players' = DictSet(players, id, Player(c, id))
           /\ position' = [position EXCEPT ![c] =
                              Vec(SpawnX(angle), 2, SpawnZ(angle))]
           /\ rotation' = [rotation EXCEPT ![c] = Vec(0, angle, 0)]
           /\ sending' = [sending EXCEPT ![c] = init_message(c)']
    /\ pc' = [pc EXCEPT ![c] = "init"]
    /\ last_msg' = [last_msg EXCEPT ![c] = current_time]
    /\ nread' = [nread EXCEPT ![c] = @ + 1]

\* The handshake read raises (disconnect, or text that is not a JSON
\* object): player_id is still None, both except clauses do nothing.
HandshakeFail(c) ==
    /\ UNCHANGED <<generator, lap>>
    /\ pc[c] = "new"
    /\ nevents < MaxEvents
    /\ nevents' = nevents + 1
    /\ \A q \in Conns : q < c => pc[q] # "new"
    /\ Close(c)
    /\ UNCHANGED <<identity, kinematics, message, sending, last_update,
                   world_seed, connected_players, players, current_time,
                   tick_count, events, game_loop, bcast, left, last_msg, nread>>

\* app.py:62-77: the send of `init` returns or raises; after it playerJoined
\* is broadcast.
SendInit(c) ==
    /\ UNCHANGED <<generator, lap>>
    /\ pc[c] = "init"
    /\ sending' = [sending EXCEPT ![c] = <<>>]
    /\ IF alive[c]
       THEN LET f == StartBroadcast(connected_players, c, "playerJoined",
                        [vehicleType |-> vehicle_type[c],
                         position |-> position[c],
                         rotation |-> rotation[c]], None)
            IN /\ bcast' = [bcast EXCEPT ![c] = Kept(f)]
               /\ pc' = [pc EXCEPT ![c] = PcAfter(f)]
               /\ UNCHANGED <<alive, connected_players, players, left>>
       ELSE OwnSendRaises(c)
    /\ UNCHANGED <<identity, kinematics, message, last_update, world_seed,
                   current_time, tick_count, events, game_loop, nevents, last_msg, nread>>

\* app.py:142-147: the send in flight returns or raises (caught and logged),
\* and the loop goes on to its next send.  A RuntimeError of the iteration
\* reaches the caller: `except Exception` in the try body, nothing inside
\* the `except WebSocketDisconnect` clause.
BroadcastStep(c) ==
    /\ UNCHANGED <<generator, lap>>
    /\ pc[c] = "bc"
    /\ LET f == bcast[c]
           ok == Reachable(f.cur)
           f2 == AfterSend(connected_players, f, ok)
       IN /\ bcast' = [bcast EXCEPT ![c] = Kept(f2)]
          /\ IF f2.st = "raised" /\ f2.type # "playerLeft"
             THEN ErrorExit(c)
             ELSE /\ pc' = [pc EXCEPT ![c] = PcAfter(f2)]
                  /\ alive' = [alive EXCEPT ![c] =
                                  IF PcAfter(f2) = "closed" THEN FALSE ELSE @]
                  /\ UNCHANGED <<connected_players, players>>
    /\ UNCHANGED <<identity, kinematics, message, sending, last_update,
                   world_seed, current_time, tick_count, events, game_loop, nevents, left,
                   last_msg, nread>>

\* ------------------------------------------------------ main message loop
\* Texts a client may put in a `chat` message.
ClientTexts == {"hi"}

\* The `chat` messages a client may send.
ClientChats ==
    {[type |-> "chat", message |-> t] : t \in ClientTexts} \cup {[type |-> "chat"]}

\* The `ping` messages a client may send.
ClientPings ==
    {[type |-> "ping", timestamp |-> t] : t \in ClientTimestamps}
    \cup {[type |-> "ping"]}

\* Messages whose type matches no branch, or that have no type.
ClientOthers == {[type |-> "dance"], [timestamp |-> "7"]}

\* Variant of moved: a missing rotation is reset instead of kept.
moved_rotation_reset(m, p, r, v) ==
    [position |-> Get(m, "position", p),
     rotation |-> Get(m, "rotation", Vec(0, 0, 0)),
     velocity |-> Get(m, "velocity", v)]

\* app.py:91-93: the transform of a player at (p, r, v) after message m.
moved(m, p, r, v) ==
    [position |-> Get(m, "position", p),
     rotation |-> Get(m, "rotation", r),
     velocity |-> Get(m, "velocity", v)]

\* app.py:89-103: a `position` message.
RecvPosition(c) ==
    /\ UNCHANGED <<generator, lap>>
    /\ pc[c] = "recv" /\ alive[c]
    /\ nevents < MaxEvents
    /\ nevents' = nevents + 1
    /\ \E m \in ClientMoves :
        LET t == moved(m, position[c], rotation[c], velocity[c])
            f == StartBroadcast(connected_players, c, "playerPosition", t,
                                player_id[c])
        IN /\ message' = [message EXCEPT ![c] = m]
           /\ position' = [position EXCEPT ![c] = t.position]
           /\ rotation' = [rotation EXCEPT ![c] = t.rotation]
           /\ velocity' = [velocity EXCEPT ![c] = t.velocity]
           /\ last_update' = [last_update EXCEPT ![c] = current_time]
           /\ bcast' = [bcast EXCEPT ![c] = Kept(f)]
           /\ pc' = [pc EXCEPT ![c] = PcAfter(f)]
    /\ last_msg' = [last_msg EXCEPT ![c] = current_time]
    /\ nread' = [nread EXCEPT ![c] = @ + 1]
    /\ UNCHANGED <<alive, identity, sending, world_seed, connected_players,
                   players, current_time, tick_count, events, game_loop, left>>

\* app.py:105-112: a `chat` message.
RecvChat(c) ==
    /\ UNCHANGED <<generator, lap>>
    /\ pc[c] = "recv" /\ alive[c]
    /\ nevents < MaxEvents
    /\ nevents' = nevents + 1
    /\ \E m \in ClientChats :
        LET f == StartBroadcast(connected_players, c, "chat",
                                [message |-> Get(m, "message", "")], None)
        IN /\ message' = [message EXCEPT ![c] = m]
           /\ bcast' = [bcast EXCEPT ![c] = Kept(f)]
           /\ pc' = [pc EXCEPT ![c] = PcAfter(f)]
    /\ last_msg' = [last_msg EXCEPT ![c] = current_time]
    /\ nread' = [nread EXCEPT ![c] = @ + 1]
    /\ UNCHANGED <<alive, identity, kinematics, sending, last_update,
                   world_seed, connected_players, players, current_time,
                   tick_count, events, game_loop, left>>

\* Variant of pong_message: the reply is stamped with the server's clock.
pong_message_server_time(m) ==
    [type |-> "pong", timestamp |-> ToString(current_time)]

\* The `pong` message of app.py:116-119.
pong_message(m) ==
    [type |-> "pong", timestamp |-> Get(m, "timestamp", None)]

\* app.py:114-119: a `ping` message, up to the send of `pong`.
RecvPing(c) ==
    /\ UNCHANGED <<generator, lap>>
    /\ pc[c] = "recv" /\ alive[c]
    /\ nevents < MaxEvents
    /\ nevents' = nevents + 1
    /\ \E m \in ClientPings :
        /\ message' = [message EXCEPT ![c] = m]
        /\ sending' = [sending EXCEPT ![c] = pong_message(m)]
    /\ pc' = [pc EXCEPT ![c] = "pong"]
    /\ last_msg' = [last_msg EXCEPT ![c] = current_time]
    /\ nread' = [nread EXCEPT ![c] = @ + 1]
    /\ UNCHANGED <<alive, bcast, identity, kinematics, last_update,
                   world_seed, connected_players, players, current_time,
                   tick_count, events, game_loop, left>>

\* app.py:116: the `pong` send returns or raises.
Pong(c) ==
    /\ UNCHANGED <<generator, lap>>
    /\ pc[c] = "pong"
    /\ sending' = [sending EXCEPT ![c] = <<>>]
    /\ IF alive[c]
       THEN /\ pc' = [pc EXCEPT ![c] = "recv"]
            /\ UNCHANGED <<alive, connected_players, players, bcast, left>>
       ELSE OwnSendRaises(c)
    /\ UNCHANGED <<identity, kinematics, message, last_update, world_seed,
                   current_time, tick_count, events, game_loop, nevents, last_msg, nread>>

\* Variant of RecvUnknown: a message that matches no branch is an error.
RecvUnknownRejected(c) ==
    /\ UNCHANGED <<generator, lap>>
    /\ pc[c] = "recv" /\ alive[c]
    /\ nevents < MaxEvents
    /\ nevents' = nevents + 1
    /\ \E m \in ClientOthers : message' = [message EXCEPT ![c] = m]
    /\ last_msg' = [last_msg EXCEPT ![c] = current_time]
    /\ nread' = [nread EXCEPT ![c] = @ + 1]
    /\ ErrorExit(c)
    /\ UNCHANGED <<bcast, identity, kinematics, sending, last_update,
                   world_seed, current_time, tick_count, events, game_loop,
                   left>>

\* app.py:87-119: a message whose type matches no branch.
RecvUnknown(c) ==
    /\ UNCHANGED <<generator, lap>>
    /\ pc[c] = "recv" /\ alive[c]
    /\ nevents < MaxEvents
    /\ nevents' = nevents + 1
    /\ \E m \in ClientOthers : message' = [message EXCEPT ![c] = m]
    /\ last_msg' = [last_msg EXCEPT ![c] = current_time]
    /\ nread' = [nread EXCEPT ![c] = @ + 1]
    /\ UNCHANGED <<pc, alive, bcast, identity, kinematics, sending,
                   last_update, world_seed, connected_players, players,
                   current_time, tick_count, events, game_loop, left>>

\* app.py:84: json.loads raises on the text read (or .get on a non-object).
RecvMalformed(c) ==
    /\ UNCHANGED <<generator, lap>>
    /\ pc[c] = "recv" /\ alive[c]
    /\ nevents < MaxEvents
    /\ nevents' = nevents + 1
    /\ ErrorExit(c)
    /\ UNCHANGED <<identity, kinematics, message, sending, last_update,
                   world_seed, current_time, tick_count, events, game_loop,
                   bcast, left, last_msg, nread>>

\* app.py:83: receive_text raises WebSocketDisconnect.
RecvDisconnect(c) ==
    /\ UNCHANGED <<generator, lap>>
    /\ pc[c] = "recv" /\ ~alive[c]
    /\ Teardown(c)
    /\ UNCHANGED <<identity, kinematics, message, sending, last_update,
                   world_seed, current_time, tick_count, events, game_loop, nevents, last_msg, nread>>

\* The client end of the connection goes away (clean or abrupt).
ClientDisconnect(c) ==
    /\ UNCHANGED <<generator, lap>>
    /\ pc[c] # "closed" /\ alive[c]
    /\ nevents < MaxEvents
    /\ nevents' = nevents + 1
    /\ alive' = [alive EXCEPT ![c] = FALSE]
    /\ UNCHANGED <<pc, identity, kinematics, message, sending, last_update,
                   world_seed, connected_players, players, current_time,
                   tick_count, events, game_loop, bcast, left, last_msg, nread>>

\* ------------------------------------------------------------------- tick
\* Variant of Inactive: `<=` for `<`.
InactiveInclusive(pl, threshold) ==
    {i \in DictLive(pl) : last_update[pl[i].val] <= threshold}

\* The list comprehension of _cleanup_inactive_players: the slots of the
\* players whose last update is older than the threshold.
Inactive(pl, threshold) ==
    {i \in DictLive(pl) : last_update[pl[i].val] < threshold}

\* `for player_id in inactive_players: self.remove_player(player_id)`
RECURSIVE RemoveAll(_, _)
RemoveAll(pl, ids) ==
    IF ids = {} THEN pl
    ELSE LET id == CHOOSE k \in ids : TRUE
         IN RemoveAll(remove_player(pl, id), ids \ {id})

\* GameState._cleanup_inactive_players
cleanup_inactive_players(pl, now) ==
    RemoveAll(pl, {pl[i].key : i \in Inactive(pl, now - playerTimeout)})

\* A position the distance computation can read: it has the three keys.
WellFormed(p) == {"x", "y", "z"} \subseteq DOMAIN p

\* The square of the distance of _process_events (in squared quarters).
Distance2(p1, p2) ==
    (p1.x - p2.x) * (p1.x - p2.x) + (p1.y - p2.y) * (p1.y - p2.y)
        + (p1.z - p2.z) * (p1.z - p2.z)

\* `distance < 2.0`: the square root is monotonic, and 2.0 is 8 quarters.
TooClose(p1, p2) == Distance2(p1, p2) < 8 * 8

\* The event _process_events appends for the entries i and j of pl.
collision(pl, i, j, now) ==
    LET p1 == position[pl[i].val]
        p2 == position[pl[j].val]
    IN [type |-> "collision", time |-> now,
        players |-> <<pl[i].key, pl[j].key>>,
        position |-> Vec((p1.x + p2.x) \div 2, (p1.y + p2.y) \div 2,
                         (p1.z + p2.z) \div 2)]

\* The two nested loops of _process_events over the entries of pl, from
\* the k-th (outer, inner) pair on: acc is what has been appended so far.
\* Reading a coordinate that a position lacks raises, which ends the scan.
RECURSIVE ScanPairs(_, _, _, _)
ScanPairs(pl, k, acc, now) ==
    LET n == Len(pl)
        i == ((k - 1) \div n) + 1
        j == ((k - 1) % n) + 1
    IN IF k > n * n THEN [appended |-> acc, raised |-> FALSE]
       ELSE IF pl[i].key = pl[j].key THEN ScanPairs(pl, k + 1, acc, now)
       ELSE IF ~(WellFormed(position[pl[i].val]) /\ WellFormed(position[pl[j].val]))
            THEN [appended |-> acc, raised |-> TRUE]
       ELSE IF TooClose(position[pl[i].val], position[pl[j].val])
            THEN ScanPairs(pl, k + 1, Append(acc, collision(pl, i, j, now)), now)
       ELSE ScanPairs(pl, k + 1, acc, now)

\* _process_events stamping events with the time of the previous update.
process_events_stale_time(pl, now) == ScanPairs(pl, 1, <<>>, current_time)

\* GameState._process_events on the player map pl.
process_events(pl, now) == ScanPairs(pl, 1, <<>>, now)

\* game_loop -> GameState.update(): time.time() has advanced by d seconds.
\* An exception of update() ends the game_loop task.
Update ==
    /\ UNCHANGED <<generator, lap>>
    /\ game_loop = "running"
    /\ nevents < MaxEvents
    /\ nevents' = nevents + 1
    /\ \E d \in ClockSteps :
        LET now == current_time + d
            pl == cleanup_inactive_players(players, now)
            r == process_events(pl, now)
        IN /\ now <= MaxTime
           /\ current_time' = now
           /\ players' = pl
           /\ events' = events \o r.appended
           /\ game_loop' = IF r.raised THEN "crashed" ELSE "running"
    /\ tick_count' = tick_count + 1
    /\ UNCHANGED <<pc, alive, identity, kinematics, message, sending,
                   last_update, world_seed, connected_players, bcast, left,
                   last_msg, nread>>

Next ==
    \/ \E c \in Conns : HandshakeOk(c)
    \/ \E c \in Conns : HandshakeFail(c)
    \/ \E c \in Conns : SendInit(c)
    \/ \E c \in Conns : BroadcastStep(c)
    \/ \E c \in Conns : RecvPosition(c)
    \/ \E c \in Conns : RecvChat(c)
    \/ \E c \in Conns : RecvPing(c)
    \/ \E c \in Conns : Pong(c)
    \/ \E c \in Conns : RecvUnknown(c)
    \/ \E c \in Conns : RecvMalformed(c)
    \/ \E c \in Conns : RecvDisconnect(c)
    \/ \E c \in Conns : ClientDisconnect(c)
    \/ Update

Spec == Init /\ [][Next]_vars

\* The server one update after start, with every connection in its message
\* loop under its placeholder id: each joined before that update or after
\* it, and stands at the spawn point or where a position message put it.
InitUpdate ==
    /\ pc = [c \in Conns |-> "recv"]
    /\ alive = [c \in Conns |-> TRUE]
    /\ player_id = [c \in Conns |-> "player_" \o ToString(c)]
    /\ message = [c \in Conns |-> <<>>]
    /\ sending = [c \in Conns |-> <<>>]
    /\ name = [c \in Conns |-> "Player " \o ToString(c)]
    /\ vehicle_type = [c \in Conns |-> "default"]
    /\ \E angle \in SpawnAngles :
        /\ position \in [Conns -> {Vec(SpawnX(angle), 2, SpawnZ(angle))}
                                   \cup ClientPositions]
        /\ rotation = [c \in Conns |-> Vec(0, angle, 0)]
    /\ velocity = [c \in Conns |-> Vec(0, 0, 0)]
    /\ current_time \in ClockSteps
    /\ last_update \in [Conns -> {start_time, current_time}]
    /\ world_seed \in WorldSeeds
    /\ connected_players =
           [c \in Conns |-> [key |-> player_id[c], val |-> c, live |-> TRUE]]
    /\ players = connected_players
    /\ tick_count = 1
    /\ events = <<>>
    /\ game_loop = "running"
    /\ bcast = [c \in Conns |-> NoFrame]
    /\ nevents = 0
    /\ left = [c \in Conns |-> 0]
    /\ last_msg = last_update
    /\ nread = [c \in Conns |-> 1]
    /\ chunks = <<>>
    /\ asked = <<>>
    /\ returned = <<>>
    /\ generated = [xz \in ChunkCoords \X ChunkCoords |-> 0]
    /\ hit = FALSE
    /\ roads = <<>>
    /\ InitPlayer

\* The game loop alone: the clients are silent.
NextUpdate == Update

SpecUpdate == InitUpdate /\ [][NextUpdate]_vars

\* --------------------------------------------------------- world generator
\* Variant of chunk_key: the coordinates are joined without the comma.
chunk_key_unseparated(chunk_x, chunk_z) == ToString(chunk_x) \o ToString(chunk_z)

\* f"{chunk_x},{chunk_z}"
chunk_key(chunk_x, chunk_z) == ToString(chunk_x) \o "," \o ToString(chunk_z)

\* The pairs (road[i], road[i + 1]) of every road, in the order the loops of
\* world_generator.py:124-127 visit them.
RECURSIVE Segments(_, _, _)
Segments(rs, r, i) ==
    IF r > Len(rs) THEN <<>>
    ELSE IF i >= Len(rs[r]) THEN Segments(rs, r + 1, 1)
    ELSE <<[start |-> rs[r][i], end |-> rs[r][i + 1]]>> \o Segments(rs, r, i + 1)

\* The "simple line-box intersection check" of world_generator.py:136-137.
PassesThrough(p1, p2, min_x, max_x, min_z, max_z) ==
    /\ \/ (min_x <= p1.x /\ p1.x <= max_x)
       \/ (min_x <= p2.x /\ p2.x <= max_x)
    /\ \/ (min_z <= p1.z /\ p1.z <= max_z)
       \/ (min_z <= p2.z /\ p2.z <= max_z)

\* world_generator.py:122-141: the roads of chunk (chunk_x, chunk_z).
chunk_roads(chunk_x, chunk_z) ==
    LET world_x == chunk_x * chunk_size
        world_z == chunk_z * chunk_size
    IN SelectSeq(Segments(roads, 1, 1),
                 LAMBDA s : PassesThrough(s.start, s.end,
                                          world_x, world_x + chunk_size,
                                          world_z, world_z + chunk_size))

\* WorldGenerator._generate_chunk: the chunk's place and size, and what its
\* heightmap, vertices, roads and objects are computed from (the noise of
\* base `seed` at the chunk's world coordinates, the roads of the seed, and
\* random.Random(seed + hash((chunk_x, chunk_z)))).
generate_chunk(chunk_x, chunk_z) ==
    [position |-> [x |-> chunk_x * chunk_size, z |-> chunk_z * chunk_size],
     size |-> chunk_size,
     resolution |-> 16,
     roads |-> chunk_roads(chunk_x, chunk_z),
     terrain |-> [seed |-> world_seed, world_x |-> chunk_x * chunk_size,
                  world_z |-> chunk_z * chunk_size],
     objects |-> [seed |-> world_seed, chunk_x |-> chunk_x, chunk_z |-> chunk_z]]

\* WorldGenerator.get_chunk
get_chunk(chunk_x, chunk_z) ==
    LET key == chunk_key(chunk_x, chunk_z) IN
    /\ asked' = <<chunk_x, chunk_z>>
    /\ hit' = (key \in DOMAIN chunks)
    /\ IF key \in DOMAIN chunks
       THEN /\ returned' = chunks[key]
            /\ UNCHANGED <<chunks, generated>>
       ELSE /\ chunks' = (key :> generate_chunk(chunk_x, chunk_z)) @@ chunks
            /\ returned' = generate_chunk(chunk_x, chunk_z)
            /\ generated' = [generated EXCEPT ![<<chunk_x, chunk_z>>] = @ + 1]
    /\ UNCHANGED <<pc, alive, identity, kinematics, message, sending,
                   last_update, world_seed, connected_players, players,
                   current_time, tick_count, events, game_loop, bcast,
                   nevents, left, last_msg, nread, roads, lap>>

\* The callers of the world generator: any chunk, in any order.
NextChunks == \E chunk_x, chunk_z \in ChunkCoords : get_chunk(chunk_x, chunk_z)

SpecChunks == Init /\ [][NextChunks]_vars

\* ------------------------------------------------------- checkpoints
\* Checkpoint ids and clock readings a caller may pass.
CheckpointIds == {0, 1, 2}
CheckpointTimes == {10, 13, 18}

\* The elements of a list.
Range(s) == {s[i] : i \in DOMAIN s}

\* The lap fields of the Player as one record.
Lap ==
    [checkpoints_passed |-> checkpoints_passed,
     current_checkpoint |-> current_checkpoint,
     best_lap_time |-> best_lap_time,
     current_lap_start |-> current_lap_start]

\* Player.update_lap_time
update_lap_time(p, t) ==
    IF p.current_lap_start # <<>>
    THEN LET lap_time == t - p.current_lap_start[1]
         IN [p EXCEPT !.best_lap_time =
                         IF @ = <<>> \/ lap_time < @[1] THEN <<lap_time>> ELSE @,
                      !.current_lap_start = <<t>>]
    ELSE [p EXCEPT !.current_lap_start = <<t>>]

\* Player.reset_checkpoints
reset_checkpoints(p) ==
    [p EXCEPT !.checkpoints_passed = <<>>, !.current_checkpoint = 0]

\* pass_checkpoint without the membership test.
pass_checkpoint_unconditional(p, checkpoint_id, t) ==
    LET q == [p EXCEPT !.checkpoints_passed = Append(@, checkpoint_id),
                       !.current_checkpoint = checkpoint_id]
    IN IF checkpoint_id = 0 THEN update_lap_time(q, t) ELSE q

\* Player.pass_checkpoint
pass_checkpoint(p, checkpoint_id, t) ==
    IF checkpoint_id \notin Range(p.checkpoints_passed)
    THEN LET q == [p EXCEPT !.checkpoints_passed = Append(@, checkpoint_id),
                            !.current_checkpoint = checkpoint_id]
         IN IF checkpoint_id = 0 THEN update_lap_time(q, t) ELSE q
    ELSE p

\* The Player takes the values of record q.
Becomes(q) ==
    /\ checkpoints_passed' = q.checkpoints_passed
    /\ current_checkpoint' = q.current_checkpoint
    /\ best_lap_time' = q.best_lap_time
    /\ current_lap_start' = q.current_lap_start

\* A caller passes a checkpoint.
PassCheckpoint ==
    /\ ncalls < MaxCalls
    /\ ncalls' = ncalls + 1
    /\ \E checkpoint_id \in CheckpointIds, t \in CheckpointTimes :
        /\ Becomes(pass_checkpoint(Lap, checkpoint_id, t))
        /\ passed' = Append(passed, checkpoint_id)
        /\ called' = [op |-> "pass_checkpoint", id |-> checkpoint_id]
    /\ UNCHANGED <<server, generator>>

\* A caller resets the checkpoints.
ResetCheckpoints ==
    /\ ncalls < MaxCalls
    /\ ncalls' = ncalls + 1
    /\ Becomes(reset_checkpoints(Lap))
    /\ passed' = <<>>
    /\ called' = [op |-> "reset_checkpoints"]
    /\ UNCHANGED <<server, generator>>

NextCheckpoints == PassCheckpoint \/ ResetCheckpoints

SpecCheckpoints == Init /\ [][NextCheckpoints]_vars

\* The state after construction, for any road network.
InitRoads == InitServer /\ roads \in RoadNetworks

\* Chunks near the road points.
NearChunks == {-1, 1}

\* The chunks around the roads are generated, in any order.
NextRoads == \E chunk_x, chunk_z \in NearChunks : get_chunk(chunk_x, chunk_z)

SpecRoads == InitRoads /\ [][NextRoads]_vars

\* ================================================================ claims
\* The Player objects held by a table.
Held(d) == DictVals(d)

\* C1: a playerPosition message prompted by a position message from P is
\* never sent on P's own connection: no send of P's playerPosition
\* broadcast, in flight or returned, goes to P.
C1_NoEcho ==
    \A c \in Conns :
        pc[c] = "bc" /\ bcast[c].type = "playerPosition" =>
            /\ bcast[c].cur # c
            /\ \A i \in DOMAIN bcast[c].log : bcast[c].log[i].to # c

\* C1 witness: a playerPosition broadcast has delivered to another
\* connection and is sending to a further one.
C1_Witness ==
    \E c \in Conns :
        /\ pc[c] = "bc" /\ bcast[c].type = "playerPosition"
        /\ \E i \in DOMAIN bcast[c].log : bcast[c].log[i].ok

\* The connections that the broadcast handler c begins in this step will
\* send to if it runs to its end: the players of the table's entries, but
\* for the excluded key.
Addressees(c) ==
    {connected_players'[i].val :
        i \in {j \in DictLive(connected_players') :
                  connected_players'[j].key # bcast'[c].exclude}}

\* Handler c, reading in its main loop, begins a broadcast of this type.
Begins(c, type) ==
    pc[c] = "recv" /\ pc'[c] = "bc" /\ bcast'[c].type = type

\* C2: when a position message from P is processed, the playerPosition
\* broadcast it prompts goes to every other connection that is in its main
\* loop and still connected at that moment.
C2_PositionReachesOthers ==
    [][\A c \in Conns :
        Begins(c, "playerPosition") =>
            \A q \in Conns \ {c} :
                (InLoop(q) /\ alive[q]) => q \in Addressees(c)]_vars

\* C3: when a chat message from P is processed, the chat broadcast it
\* prompts carries P's id and name and goes to P's own connection and to
\* every other connection connected at that moment.
C3_ChatReachesAll ==
    [][\A c \in Conns :
        Begins(c, "chat") =>
            /\ bcast'[c].playerId = player_id[c]
            /\ bcast'[c].playerName = name[c]
            /\ \A q \in Conns :
                (InLoop(q) /\ alive[q]) => q \in Addressees(c)]_vars

\* C4: one update() removes from the player map exactly the players whose
\* last update is strictly older than the new current_time - 30; every
\* other player stays.
C4_EvictsExactlyStale ==
    [][tick_count' # tick_count =>
        \A c \in Conns :
            c \in Held(players') <=>
                (c \in Held(players) /\ last_update[c] >= current_time' - playerTimeout)]_vars

\* C4 witness: after a tick one player has been evicted (it is still in the
\* connection table) while a player whose last update is exactly 30 s old
\* is still in the player map.
C4_Witness ==
    /\ tick_count > 0
    /\ \E c \in Held(connected_players) : c \notin Held(players)
    /\ \E b \in Held(players) : last_update[b] = current_time - playerTimeout

\* C5: a player evicted by update() has had exactly one playerLeft
\* notification emitted for it.
C5_EvictionNotified ==
    \A c \in Conns :
        (c \in Held(connected_players) /\ c \notin Held(players)) => left[c] = 1

\* C6: when the handler of an established connection sees the transport
\* disconnect, its player leaves the connection table and the player map
\* and one playerLeft broadcast is started.
C6_DisconnectTearsDown ==
    [][\A c \in Conns :
        (pc[c] = "recv" /\ ~alive[c] /\ pc'[c] # "recv") =>
            /\ c \notin Held(connected_players')
            /\ c \notin Held(players')
            /\ left'[c] = left[c] + 1]_vars

\* C7: a malformed message on an established connection ends it as a
\* disconnect does: the player leaves both tables and playerLeft is
\* broadcast.
C7_MalformedTearsDown ==
    [][\A c \in Conns :
        (pc[c] = "recv" /\ alive[c] /\ pc'[c] = "closed") =>
            /\ c \notin Held(connected_players')
            /\ c \notin Held(players')
            /\ left'[c] = left[c] + 1]_vars

\* The slots of table d that frame f has still to send to.
Later(d, f) == {i \in DictLive(d) : i > f.pos /\ d[i].key # f.exclude}

\* The dict iterator of frame f is intact on table d: the table has the size
\* it had when the loop began and no more entries ahead than it had then.
IteratorIntact(d, f) ==
    /\ f.used = DictLen(d)
    /\ f.len >= Cardinality({i \in DictLive(d) : i > f.pos})

\* C8: when a send of a broadcast fails (and the table's iterator is intact), the
\* broadcast goes on to the next recipient of the table or returns to the
\* handler, which goes on; the tables and the players' positions stay as
\* they are.
C8_SendFailureIsolated ==
    [][\A c \in Conns :
        (/\ pc[c] = "bc" /\ bcast'[c] # bcast[c]
         /\ ~Reachable(bcast[c].cur)
         /\ IteratorIntact(connected_players, bcast[c])) =>
            /\ IF Later(connected_players, bcast[c]) = {}
               THEN pc'[c] = IF bcast[c].type = "playerLeft" THEN "closed" ELSE "recv"
               ELSE /\ pc'[c] = "bc"
                    /\ \E i \in Later(connected_players, bcast[c]) :
                        /\ bcast'[c].cur = connected_players[i].val
                        /\ \A j \in Later(connected_players, bcast[c]) : i <= j
            /\ connected_players' = connected_players
            /\ players' = players
            /\ position' = position]_vars

\* C8 witness: a broadcast has had a send fail, has delivered to a later
\* recipient and is sending to a further one.
C8_Witness ==
    \E c \in Conns :
        /\ pc[c] = "bc"
        /\ \E i, j \in DOMAIN bcast[c].log :
            i < j /\ ~bcast[c].log[i].ok /\ bcast[c].log[j].ok

\* C9: every key of the player map is a key of the connection table, and
\* the connection of that entry is open (its handler has not ended).
C9_PlayersHaveOpenConnection ==
    \A i \in DictLive(players) :
        /\ DictHas(connected_players, players[i].key)
        /\ pc[DictGet(connected_players, players[i].key)] # "closed"

\* C10: the playerJoined broadcast of a successful handshake goes to every
\* other connection connected at that moment and not to the joining
\* player's own connection.
C10_JoinedToOthersOnly ==
    [][\A c \in Conns :
        (pc[c] = "init" /\ pc'[c] = "bc" /\ bcast'[c].type = "playerJoined") =>
            /\ \A q \in Conns \ {c} :
                (InLoop(q) /\ alive[q]) => q \in Addressees(c)
            /\ c \notin Addressees(c)]_vars

\* message.get("type", "") of the message handler c parsed last.
MessageType(c) == Get(message[c], "type", "")

\* Handler c, reading in its main loop, parses a message in this step.
Parses(c) == pc[c] = "recv" /\ nread'[c] # nread[c]

\* C11: a successful handshake puts the `init` message on the new player's
\* connection before any playerJoined broadcast of that handler begins; the
\* `init` carries the assigned id, the world seed (which never changes) and
\* a public state whose players are those of the player map at that moment,
\* the new player among them.
C11_InitBeforeJoined ==
    [][/\ world_seed' = world_seed
       /\ \A c \in Conns :
            /\ (pc[c] = "new" /\ pc'[c] = "init") =>
                /\ bcast'[c] = NoFrame
                /\ sending'[c].type = "init"
                /\ sending'[c].playerId = player_id'[c]
                /\ sending'[c].worldSeed = world_seed
                /\ DOMAIN sending'[c].gameState.players = DictKeys(players')
                /\ sending'[c].gameState.playerCount = DictLen(players')
                /\ sending'[c].gameState.players[player_id'[c]] =
                       [id |-> player_id'[c], name |-> name'[c],
                        position |-> position'[c], rotation |-> rotation'[c],
                        vehicleType |-> vehicle_type'[c]]
            /\ (bcast'[c].type = "playerJoined" /\ bcast[c].type # "playerJoined") =>
                /\ pc[c] = "init" /\ alive[c]
                /\ sending[c].type = "init"]_vars

\* C11 witness: a handshake has succeeded while another player was in the
\* map, and its `init`, listing both, is being sent.
C11_Witness ==
    \E c \in Conns :
        /\ pc[c] = "init"
        /\ sending[c].gameState.playerCount = 2
        /\ player_id[c] \in DOMAIN sending[c].gameState.players

\* C12: a ping read from P puts one pong with the client's timestamp on P's
\* connection and nothing on any other connection, and leaves the player
\* map and every player's position, rotation and velocity as they are;
\* once the pong is sent the handler reads again without sending more.
C12_PingPongsSenderOnly ==
    [][\A c \in Conns :
        /\ (Parses(c) /\ MessageType(c)' = "ping") =>
            /\ sending'[c] = [type |-> "pong",
                              timestamp |-> Get(message'[c], "timestamp", None)]
            /\ \A q \in Conns \ {c} : sending'[q] = sending[q]
            /\ bcast' = bcast
            /\ players' = players
            /\ position' = position /\ rotation' = rotation
            /\ velocity' = velocity
        /\ (pc[c] = "pong" /\ alive[c] /\ pc'[c] # "pong") =>
            /\ pc'[c] = "recv"
            /\ \A q \in Conns : sending'[q] = IF q = c THEN <<>> ELSE sending[q]
            /\ bcast' = bcast
            /\ players' = players
            /\ position' = position /\ rotation' = rotation
            /\ velocity' = velocity]_vars

\* C12 witness: a ping with a timestamp has been answered on a connection
\* while another connection is in its main loop.
C12_Witness ==
    \E c \in Conns :
        /\ pc[c] = "recv" /\ alive[c]
        /\ MessageType(c) = "ping" /\ "timestamp" \in DOMAIN message[c]
        /\ \E q \in Conns \ {c} : InLoop(q) /\ alive[q]

\* C13: a message whose type is missing or matches no branch changes
\* nothing: no send begins, the tables and every player's state stay as they
\* are, and the handler is reading again on its open connection.
C13_UnknownIgnored ==
    [][\A c \in Conns :
        (Parses(c) /\ MessageType(c)' \notin {"position", "chat", "ping"}) =>
            /\ pc' = pc /\ alive' = alive
            /\ bcast' = bcast /\ sending' = sending
            /\ connected_players' = connected_players
            /\ players' = players
            /\ position' = position /\ rotation' = rotation
            /\ velocity' = velocity
            /\ last_update' = last_update
            /\ name' = name /\ vehicle_type' = vehicle_type]_vars

\* C13 witness: a handler has parsed a message without type after one of
\* an unknown type and is reading on.
C13_Witness ==
    \E c \in Conns :
        /\ pc[c] = "recv" /\ alive[c] /\ nread[c] >= 3
        /\ message[c] \in ClientOthers /\ MessageType(c) = ""

\* C14: one update() appends, for every two players of the map that are
\* closer than 2.0 units, exactly one collision event naming the two (in
\* either order), and none for two players 2.0 units or more apart.
C14_OneEventPerPair ==
    [][tick_count' # tick_count =>
        LET new == SubSeq(events', Len(events) + 1, Len(events'))
            Names(a, b) ==
                {k \in DOMAIN new :
                    {new[k].players[1], new[k].players[2]} = {a, b}}
        IN \A i, j \in DictLive(players') :
            (/\ i < j
             /\ WellFormed(position[players'[i].val])
             /\ WellFormed(position[players'[j].val])) =>
                Cardinality(Names(players'[i].key, players'[j].key)) =
                    IF TooClose(position[players'[i].val],
                                position[players'[j].val])
                    THEN 1 ELSE 0]_vars

\* C15: nothing a client does stops the tick or ends the handler of
\* another connection: update() never fails, and the handler of a client
\* that is still there ends only on a message it read itself.
C15_FailureStaysLocal ==
    [][/\ game_loop' = "running"
       /\ \A c \in Conns :
            (pc[c] = "bc" /\ alive[c] /\ bcast[c].type # "playerLeft") =>
                pc'[c] # "closed"]_vars

\* C16: a player whose last message (of any type) is at most 30 s old when
\* update() runs is not evicted by it.
C16_AnyMessageKeepsAlive ==
    [][tick_count' # tick_count =>
        \A c \in Held(players) :
            last_msg[c] >= current_time' - playerTimeout =>
                c \in Held(players')]_vars

\* C18: get_public_state() has the keys players, time and playerCount; its
\* players are those of the player map, each with exactly the fields id,
\* name, position, rotation and vehicleType of that player; time is the
\* elapsed session time and playerCount the size of the map.
C18_PublicStateShape ==
    LET s == get_public_state IN
    /\ DOMAIN s = {"players", "time", "playerCount"}
    /\ DOMAIN s.players = {players[i].key : i \in DictLive(players)}
    /\ \A i \in DictLive(players) :
        LET r == s.players[players[i].key]
            o == players[i].val
        IN /\ DOMAIN r = {"id", "name", "position", "rotation", "vehicleType"}
           /\ r.id = players[i].key
           /\ r.name = name[o]
           /\ r.position = position[o]
           /\ r.rotation = rotation[o]
           /\ r.vehicleType = vehicle_type[o]
    /\ s.time = current_time - start_time
    /\ s.playerCount = Cardinality(DictLive(players))

\* C18 witness: the map holds two players of different vehicle types, one
\* of which has moved, some time into the session.
C18_Witness ==
    /\ current_time > start_time
    /\ \E a, b \in Held(players) :
        /\ vehicle_type[a] # vehicle_type[b]
        /\ position[a] # position[b]

\* C19: a Player object that has been in the player map and is no longer
\* in it is never in it again, whatever its connection sends later.
C19_NoResurrection ==
    [][\A c \in Conns :
        (pc[c] # "new" /\ c \notin Held(players)) =>
            c \notin Held(players')]_vars

\* C19 witness: a player evicted by update() has sent a position message
\* afterwards, which refreshed its timestamp, and is not in the map.
C19_Witness ==
    \E c \in Conns :
        /\ tick_count > 0 /\ pc[c] = "recv"
        /\ c \in Held(connected_players) /\ c \notin Held(players)
        /\ MessageType(c) = "position"
        /\ last_update[c] = current_time /\ current_time > playerTimeout

\* C20: a position message overwrites the position, rotation and velocity
\* it carries and leaves each one it lacks as it was, and the
\* playerPosition broadcast it prompts carries the values after the update.
C20_PositionOverwritesCarried ==
    [][\A c \in Conns :
        (Parses(c) /\ MessageType(c)' = "position") =>
            LET m == message'[c] IN
            /\ position'[c] =
                IF "position" \in DOMAIN m THEN m.position ELSE position[c]
            /\ rotation'[c] =
                IF "rotation" \in DOMAIN m THEN m.rotation ELSE rotation[c]
            /\ velocity'[c] =
                IF "velocity" \in DOMAIN m THEN m.velocity ELSE velocity[c]
            /\ pc'[c] = "bc" =>
                /\ bcast'[c].type = "playerPosition"
                /\ bcast'[c].body =
                       [position |-> position'[c], rotation |-> rotation'[c],
                        velocity |-> velocity'[c]]]_vars

\* C20 witness: the broadcast of a position message that carried only a
\* position is being sent, with the new position and the spawn rotation.
C20_Witness ==
    \E c \in Conns :
        /\ pc[c] = "bc" /\ bcast[c].type = "playerPosition"
        /\ DOMAIN message[c] = {"type", "position"}
        /\ bcast[c].body.position = message[c].position
        /\ bcast[c].body.rotation # Vec(0, 0, 0)

\* C17: the chunk cache is append-only and consistent: distinct coordinate
\* pairs have distinct keys, every entry is what generation yields for its
\* coordinates, an entry once made stays as it is, and a get_chunk call
\* returns the chunk of its coordinates, generated at most once.
C17_CacheAppendOnly ==
    [][/\ \A k \in DOMAIN chunks : k \in DOMAIN chunks' /\ chunks'[k] = chunks[k]
       /\ \A a, b \in ChunkCoords \X ChunkCoords :
            a # b => chunk_key(a[1], a[2]) # chunk_key(b[1], b[2])
       /\ \A a \in ChunkCoords \X ChunkCoords :
            /\ chunk_key(a[1], a[2]) \in DOMAIN chunks' =>
                chunks'[chunk_key(a[1], a[2])] = generate_chunk(a[1], a[2])
            /\ generated'[a] <= 1
       /\ returned' = generate_chunk(asked'[1], asked'[2])
       /\ returned' = chunks'[chunk_key(asked'[1], asked'[2])]
       /\ hit' => generated' = generated]_vars

\* C17 witness: a chunk with a negative coordinate has been asked for again
\* after other chunks were cached: the call was served from the cache, and
\* the chunk was generated once.
C17_Witness ==
    /\ asked = <<-1, 11>> /\ hit
    /\ returned = generate_chunk(-1, 11)
    /\ Cardinality(DOMAIN chunks) = 4
    /\ generated[asked] = 1

\* The sign of the cross product (a - o) x (b - o).
Turn(o, a, b) ==
    LET n == (a.x - o.x) * (b.z - o.z) - (a.z - o.z) * (b.x - o.x)
    IN IF n > 0 THEN 1 ELSE IF n < 0 THEN -1 ELSE 0

\* Point c is within the bounding box of a and b.
Within(a, b, c) ==
    /\ (a.x <= c.x /\ c.x <= b.x) \/ (b.x <= c.x /\ c.x <= a.x)
    /\ (a.z <= c.z /\ c.z <= b.z) \/ (b.z <= c.z /\ c.z <= a.z)

\* The closed segments ab and cd have a point in common.
SegmentsMeet(a, b, c, d) ==
    \/ Turn(c, d, a) * Turn(c, d, b) < 0 /\ Turn(a, b, c) * Turn(a, b, d) < 0
    \/ Turn(c, d, a) = 0 /\ Within(c, d, a)
    \/ Turn(c, d, b) = 0 /\ Within(c, d, b)
    \/ Turn(a, b, c) = 0 /\ Within(a, b, c)
    \/ Turn(a, b, d) = 0 /\ Within(a, b, d)

\* The closed segment p1 p2 has a point in the closed square of the chunk.
HitsChunk(p1, p2, chunk_x, chunk_z) ==
    LET x0 == chunk_x * chunk_size
        x1 == x0 + chunk_size
        z0 == chunk_z * chunk_size
        z1 == z0 + chunk_size
    IN \/ (x0 <= p1.x /\ p1.x <= x1 /\ z0 <= p1.z /\ p1.z <= z1)
       \/ SegmentsMeet(p1, p2, Pt(x0, z0), Pt(x1, z0))
       \/ SegmentsMeet(p1, p2, Pt(x1, z0), Pt(x1, z1))
       \/ SegmentsMeet(p1, p2, Pt(x1, z1), Pt(x0, z1))
       \/ SegmentsMeet(p1, p2, Pt(x0, z1), Pt(x0, z0))

\* C21: the roads of a generated chunk are exactly the segments of the road
\* network that have a point in the chunk's square.
C21_RoadsHitChunk ==
    asked # <<>> =>
        \A r \in DOMAIN roads : \A i \in 1..(Len(roads[r]) - 1) :
            (\E k \in DOMAIN returned.roads :
                returned.roads[k] = [start |-> roads[r][i], end |-> roads[r][i + 1]])
            <=> HitsChunk(roads[r][i], roads[r][i + 1], asked[1], asked[2])

\* C22: an update advances the tick counter by one, evicts by the new time,
\* and then scans: every event it appends carries the new current_time and
\* names only players that are still in the map, none that it evicted.
C22_UpdateOrder ==
    [][tick_count' # tick_count =>
        /\ tick_count' = tick_count + 1
        /\ DictKeys(players') =
              {players[i].key : i \in {j \in DictLive(players) :
                  ~(last_update[players[j].val] < current_time' - playerTimeout)}}
        /\ \A k \in (Len(events) + 1)..Len(events') :
              /\ events'[k].time = current_time'
              /\ \A i \in 1..2 :
                    /\ events'[k].players[i] \in DictKeys(players')
                    /\ events'[k].players[i] \notin
                          DictKeys(players) \ DictKeys(players')]_vars

\* An update has evicted a player and appended an event for two others.
C22_Witness ==
    /\ tick_count > 1
    /\ DictLen(players) < DictLen(connected_players)
    /\ events # <<>>
    /\ events[Len(events)].time = current_time

\* The first occurrences of the elements of s, in order.
RECURSIVE Firsts(_)
Firsts(s) ==
    IF s = <<>> THEN <<>>
    ELSE LET r == Firsts(SubSeq(s, 1, Len(s) - 1))
         IN IF s[Len(s)] \in Range(r) THEN r ELSE Append(r, s[Len(s)])

\* C23: after every call checkpoints_passed has no duplicate and lists the
\* ids in the order they were first passed since the last reset; passing an
\* id that is already listed changes none of the Player's lap fields.
C23_CheckpointsDistinctOrdered ==
    [][ncalls' # ncalls =>
        /\ \A i, j \in DOMAIN checkpoints_passed' :
              checkpoints_passed'[i] = checkpoints_passed'[j] => i = j
        /\ checkpoints_passed' = Firsts(passed')
        /\ (called'.op = "pass_checkpoint"
              /\ called'.id \in Range(checkpoints_passed))
           => UNCHANGED <<checkpoints_passed, current_checkpoint,
                          best_lap_time, current_lap_start>>]_vars

\* The finish line was passed a second time without a reset in between,
\* after a lap had been started and other checkpoints listed.
C23_Witness ==
    /\ called = [op |-> "pass_checkpoint", id |-> 0]
    /\ Len(passed) > Len(checkpoints_passed)
    /\ Len(checkpoints_passed) > 1
    /\ checkpoints_passed[1] = 0
    /\ current_lap_start # <<>>

\* C24: a handshake that takes the placeholder id takes an id that is not
\* a key of the connection table.
C24_PlaceholderIsFresh ==
    [][\A c \in Conns :
        (pc[c] = "new" /\ pc'[c] = "init"
            /\ player_id'[c] = PlaceholderId(connected_players))
        => ~DictHas(connected_players, player_id'[c])]_vars

\* C25: when the handler of one connection enters an except clause or
\* returns, every other connection that is open keeps the entries it has in
\* the connection table and in the player map.
C25_TeardownOwnOnly ==
    [][\A c, q \in Conns :
        (c # q /\ Reachable(q)
            /\ (left'[c] # left[c] \/ (pc[c] # "closed" /\ pc'[c] = "closed")))
        => /\ q \in Held(connected_players) => q \in Held(connected_players')
           /\ q \in Held(players) => q \in Held(players')]_vars

\* C26: a broadcast resumed after a join or a leave has changed the size of
\* the connection table goes on: it sends to the next recipient the table
\* holds, or, when there is none, returns to its handler, which goes on
\* (and ends only after a playerLeft broadcast).
C26_BroadcastSurvivesTableChange ==
    [][\A c \in Conns :
        (/\ pc[c] = "bc" /\ bcast'[c] # bcast[c]
         /\ ~IteratorIntact(connected_players, bcast[c])) =>
            IF Later(connected_players, bcast[c]) = {}
            THEN pc'[c] = IF bcast[c].type = "playerLeft" THEN "closed" ELSE "recv"
            ELSE pc'[c] = "bc"]_vars

\* C27: whenever control is with the event loop, the connection table and
\* the player map have the same keys.
C27_TablesAgree ==
    DictKeys(connected_players) = DictKeys(players)

====
